---- MODULE Spec2Model ----
(***************************************************************************)
(* A model of c3d_viewer.py: the Viewer object, its GLUT callbacks and the *)
(* __main__ loop over the input files.                                     *)
(*                                                                         *)
(* Numbers.  Python floats are modelled by exact rationals <<n, d>> (d > 0,*)
(* lowest terms); a value built with math.exp and the factor 1.5 is kept   *)
(* symbolically as 1.5^pow * e^log.  Python 2 int / int is floor division. *)
(* The wall clock time.time() counts units of 1/TimeRes second.            *)
(***************************************************************************)
EXTENDS Integers, Sequences, FiniteSets, TLC

----------------------------------------------------------------------------
(* Bounds of the exploration *)

\* file 1 of the playback sessions yields MaxFrames frames
MaxFrames == 3
\* the capacity keys are explored while maxlen stays <= MaxLen
MaxLen == 4
\* the clock is advanced while now - _last_time < MaxElapsed
MaxElapsed == 3
\* time.time() when the process starts, in clock units
StartTime == 10
\* the camera is followed while theta and phi stay within MaxTurn half degrees
\* of their initial values, and rho within the factors 1.5^MaxZoom and
\* e^(MaxZoom/13) of 1
MaxTurn == 1
MaxZoom == 1

----------------------------------------------------------------------------
(* Python / GLUT constants *)

\* clock units per second
TimeRes == 2

GLUT_LEFT_BUTTON == 0
GLUT_MIDDLE_BUTTON == 1
GLUT_RIGHT_BUTTON == 2
GLUT_DOWN == 0
GLUT_UP == 1
GLUT_ACTIVE_SHIFT == 1
GLUT_ACTIVE_CTRL == 2
GLUT_ACTIVE_ALT == 4

\* None, where a (button, modifiers) pair may stand
None == <<>>

----------------------------------------------------------------------------
(* Arithmetic *)

Abs(n) == IF n < 0 THEN -n ELSE n

Min(a, b) == IF a <= b THEN a ELSE b

Max(a, b) == IF a >= b THEN a ELSE b

RECURSIVE Gcd(_, _)
Gcd(a, b) == IF b = 0 THEN a ELSE Gcd(b, a % b)

\* the rational n/d, d # 0, in lowest terms with a positive denominator
Rat(n, d) ==
    LET g == Gcd(Abs(n), Abs(d))
        s == IF d < 0 THEN -1 ELSE 1
    IN  <<(s * n) \div g, (s * d) \div g>>

RatAdd(p, q) == Rat(p[1] * q[2] + q[1] * p[2], p[2] * q[2])

RatSub(p, q) == Rat(p[1] * q[2] - q[1] * p[2], p[2] * q[2])

RatLe(p, q) == p[1] * q[2] <= q[1] * p[2]

RatAbs(p) == <<Abs(p[1]), p[2]>>

\* Python 2 int / int: floor division
FloorDiv(a, b) == a \div b

\* int(x) of the float n/d: truncation towards zero
IntOf(n, d) == IF n >= 0 THEN n \div d ELSE -((-n) \div d)

\* bitwise and of two modifier masks (three bits)
BitAnd(m, bit) == IF (m \div bit) % 2 = 1 THEN bit ELSE 0

\* the positive float 1.5^pow * e^log
Scale(pow, log) == [pow |-> pow, log |-> log]

\* the floats 0.0 and inf, as e^-inf and e^+inf
FloatZero == Scale(0, <<-1, 0>>)

FloatInf == Scale(0, <<1, 0>>)

IsZero(a) == a = FloatZero

IsInf(a) == a = FloatInf

\* whole numbers around the natural logarithm pow * ln 1.5 + log of a
\* finite positive float (0.40 < ln 1.5 < 0.41)
ExponentLo(a) ==
    FloorDiv(a.log[1], a.log[2])
        + FloorDiv(a.pow * (IF a.pow >= 0 THEN 40 ELSE 41), 100)

ExponentHi(a) ==
    FloorDiv(a.log[1], a.log[2]) + 1
        + FloorDiv(a.pow * (IF a.pow >= 0 THEN 41 ELSE 40), 100) + 1

\* a double is normal from 2^-1022 (under e^-708) to below 2^1024 (over e^709)
IsNormal(a) ==
    /\ ~IsZero(a) /\ ~IsInf(a)
    /\ ExponentLo(a) >= -708 /\ ExponentHi(a) <= 709

\* the double a result rounds to: 0.0 below half the least denormal 2^-1074
\* (over e^-746), inf from 2^1024 (under e^710)
Float(a) ==
    IF ExponentHi(a) <= -746 THEN FloatZero
    ELSE IF ExponentLo(a) >= 710 THEN FloatInf
    ELSE a

\* math.exp(q), q a rational under 709
MathExp(q) == Float(Scale(0, q))

\* a / b of floats, b positive and finite
ScaleDiv(a, b) ==
    IF IsZero(a) \/ IsInf(a) THEN a
    ELSE Float(Scale(a.pow - b.pow, RatSub(a.log, b.log)))

\* a * b of floats, b positive and finite
ScaleMul(a, b) ==
    IF IsZero(a) \/ IsInf(a) THEN a
    ELSE Float(Scale(a.pow + b.pow, RatAdd(a.log, b.log)))

----------------------------------------------------------------------------
(* collections.deque with a maxlen *)

\* a full deque that refuses the new item instead
DequeAppendKeepsOldest(d, x) ==
    IF Len(d.items) >= d.maxlen THEN d ELSE [d EXCEPT !.items = Append(d.items, x)]

\* deque.append: a full deque drops its oldest item
DequeAppend(d, x) ==
    IF d.maxlen = 0 THEN d
    ELSE IF Len(d.items) >= d.maxlen
         THEN [d EXCEPT !.items = Append(Tail(d.items), x)]
         ELSE [d EXCEPT !.items = Append(d.items, x)]

\* deque(iterable, maxlen): the items are appended one by one
RECURSIVE DequeExtend(_, _)
DequeExtend(d, s) ==
    IF s = <<>> THEN d ELSE DequeExtend(DequeAppend(d, Head(s)), Tail(s))

Deque(s, n) == DequeExtend([maxlen |-> n, items |-> <<>>], s)

----------------------------------------------------------------------------
(* c3d.Reader: the frame source of one input file *)

\* the five values of marker i in frame k of file f: x, y, z, err, cam
Point(f, k, i) == <<k, i, f, 0, 0>>

\* one item of read_frames(): (points, analog)
Frame(f, k, r) == [points |-> [i \in 1..r.points |-> Point(f, k, i)], analog |-> <<>>]

\* point[:3]
Slice3(p) == SubSeq(p, 1, Min(3, Len(p)))

\* zip(a, b): as long as the shorter
Zip(a, b) == [j \in 1..Min(Len(a), Len(b)) |-> <<a[j], b[j]>>]

----------------------------------------------------------------------------
(* State *)

VARIABLES
    args,          \* the readers of the files named on the command line
    file,          \* __main__: the index in args of the file being shown
    status,        \* the process: "running", "finished", "exited", "crashed"
    self,          \* the Viewer of the current file
    now,           \* time.time()
    held,          \* the mouse buttons GLUT has seen go down and not yet up
    redisplay,     \* GLUT: a redisplay has been posted
    display_list,  \* GL: the list compiled by the last render_model
    viewports,     \* GL: the glViewport calls of the last handle_draw
    before_reset,  \* history: the trails, frame count and capacity before the last capacity key
    last           \* the callback that ran last, and how it ended

vars == <<args, file, status, self, now, held, redisplay, display_list,
          viewports, before_reset, last>>

Zero == Rat(0, 1)

One == Scale(0, Zero)

\* a rebuild that starts the trails afresh
ResetTrailsEmpty(s) ==
    [s EXCEPT !._trails = [i \in 1..Len(s._trails) |-> Deque(<<>>, s.maxlen)]]

\* _reset_trails, lines 108-109
ResetTrails(s) ==
    [s EXCEPT !._trails = [i \in 1..Len(s._trails) |-> Deque(s._trails[i].items, s.maxlen)]]

\* Viewer.__init__, lines 52-75; _frames is the number of frames the iterator
\* has yielded
Viewer(r) ==
    ResetTrails(
        [_frames |-> 0,
         _frame_rate |-> r.rate,
         maxlen |-> 1,
         visible |-> [i \in 1..r.points |-> TRUE],
         _trails |-> [i \in 1..r.points |-> [maxlen |-> None, items |-> <<>>]],
         theta |-> Rat(350, 1),
         phi |-> Rat(300, 1),
         rho |-> One,
         paused |-> FALSE,
         _last_time |-> 0,
         _mouse_button |-> None,
         _width |-> 800,
         _height |-> 600,
         _d_theta |-> Zero,
         _d_phi |-> Zero,
         _d_rho |-> One])

\* the trails' items, as the history variable keeps them
Items(s) == [i \in 1..Len(s._trails) |-> s._trails[i].items]

History(s) == [items |-> Items(s), frames |-> s._frames, maxlen |-> s.maxlen]

\* the outcome of a callback: the Viewer as it leaves it, and the exception
\* it raises ("" when it returns)
Return(s) == [self |-> s, exc |-> ""]

Raise(s, e) == [self |-> s, exc |-> e]

----------------------------------------------------------------------------
(* The callbacks, as functions of the Viewer *)

\* handle_reshape, lines 115-118
handle_reshape(s, w, h) == Return([s EXCEPT !._width = w, !._height = h])

\* a remap where Ctrl, when held, is the only modifier looked at
RemapCtrlFirst(button, modifier) ==
    IF button = GLUT_LEFT_BUTTON /\ BitAnd(modifier, GLUT_ACTIVE_CTRL) # 0
    THEN GLUT_MIDDLE_BUTTON
    ELSE IF button = GLUT_LEFT_BUTTON /\ BitAnd(modifier, GLUT_ACTIVE_ALT) # 0
    THEN GLUT_RIGHT_BUTTON ELSE button

\* lines 134-138: the button a drag acts as
Remap(button, modifier) ==
    LET b1 == IF button = GLUT_LEFT_BUTTON /\ BitAnd(modifier, GLUT_ACTIVE_CTRL) # 0
              THEN GLUT_MIDDLE_BUTTON ELSE button
    IN  IF button = GLUT_LEFT_BUTTON /\ BitAnd(modifier, GLUT_ACTIVE_ALT) # 0
        THEN GLUT_RIGHT_BUTTON ELSE b1

\* a centre rounded up
CentreCeil(size) == FloorDiv(size + 1, 2)

\* lines 140-141: cx = self._width / 2, cy = self._height / 2
Centre(size) == FloorDiv(size, 2)

\* lines 143-144: 5 * float(v - c) / size
DragAngle(v, c, size) == Rat(5 * (v - c), size)

\* line 148: math.exp(float(y - cy) / self._height / 1.3)
DragZoom(y, cy, size) == MathExp(Rat(10 * (y - cy), 13 * size))

\* handle_mouse_movement, lines 131-148
handle_mouse_movement(s, x, y) ==
    IF s._mouse_button = None THEN Raise(s, "TypeError")
    ELSE
    LET button == Remap(s._mouse_button[1], s._mouse_button[2])
        cx == Centre(s._width)
        cy == Centre(s._height)
    IN  IF button = GLUT_LEFT_BUTTON
        THEN IF s._height = 0 THEN Raise(s, "ZeroDivisionError")
             ELSE LET s1 == [s EXCEPT !._d_phi = DragAngle(y, cy, s._height)]
                  IN  IF s._width = 0 THEN Raise(s1, "ZeroDivisionError")
                      ELSE Return([s1 EXCEPT !._d_theta = DragAngle(x, cx, s._width)])
        ELSE IF button = GLUT_RIGHT_BUTTON
        THEN IF s._height = 0 THEN Raise(s, "ZeroDivisionError")
             ELSE IF FloorDiv(10 * (y - cy), 13 * s._height) >= 710
             THEN Raise(s, "OverflowError")
             ELSE Return([s EXCEPT !._d_rho = DragZoom(y, cy, s._height)])
        ELSE Return(s)

\* a release that forgets the zoom velocity
ReleasedKeepsZoom(s) ==
    [s EXCEPT !._mouse_button = None, !._d_theta = Zero, !._d_phi = Zero]

\* lines 123-126: the drag velocities after a button goes up
Released(s) ==
    [s EXCEPT !._mouse_button = None, !._d_theta = Zero, !._d_phi = Zero, !._d_rho = One]

\* handle_mouse_button, lines 120-129; modifiers is what glutGetModifiers()
\* returns during the callback
handle_mouse_button(s, button, state, x, y, modifiers) ==
    IF state = GLUT_UP THEN Return(Released(s))
    ELSE handle_mouse_movement([s EXCEPT !._mouse_button = <<button, modifiers>>], x, y)

Digits == {"0", "1", "2", "3", "4", "5", "6", "7", "8", "9"}

\* int(char)
IntOfChar(char) ==
    CASE char = "0" -> 0 [] char = "1" -> 1 [] char = "2" -> 2 [] char = "3" -> 3
      [] char = "4" -> 4 [] char = "5" -> 5 [] char = "6" -> 6 [] char = "7" -> 7
      [] char = "8" -> 8 [] char = "9" -> 9

\* line 159
Doubled(n) == n * 2

\* halving without the floor of 1
HalvedUnclamped(n) == FloorDiv(n, 2)

\* halving with a floor of 2
HalvedFloorTwo(n) == Max(2, FloorDiv(n, 2))

\* line 162
Halved(n) == Max(1, FloorDiv(n, 2))

\* a toggle that also empties the marker's trail
handle_keypress_clearing(s, char) ==
    IF char = "q" THEN Raise(s, "SystemExit")
    ELSE IF char \in Digits
    THEN IF IntOfChar(char) >= Len(s.visible) THEN Raise(s, "IndexError")
         ELSE Return([s EXCEPT !.visible[IntOfChar(char) + 1] = ~@,
                               !._trails[IntOfChar(char) + 1].items = <<>>])
    ELSE IF char = "p" THEN Return([s EXCEPT !.paused = ~@])
    ELSE IF char \in {"+", "="}
    THEN Return(ResetTrails([s EXCEPT !.maxlen = Doubled(@)]))
    ELSE IF char \in {"_", "-"}
    THEN Return(ResetTrails([s EXCEPT !.maxlen = Halved(@)]))
    ELSE Return(s)

\* handle_keypress, lines 150-163
handle_keypress(s, char) ==
    IF char = "q" THEN Raise(s, "SystemExit")
    ELSE IF char \in Digits
    THEN IF IntOfChar(char) >= Len(s.visible) THEN Raise(s, "IndexError")
         ELSE Return([s EXCEPT !.visible[IntOfChar(char) + 1] = ~@])
    ELSE IF char = "p" THEN Return([s EXCEPT !.paused = ~@])
    ELSE IF char \in {"+", "="}
    THEN Return(ResetTrails([s EXCEPT !.maxlen = Doubled(@)]))
    ELSE IF char \in {"_", "-"}
    THEN Return(ResetTrails([s EXCEPT !.maxlen = Halved(@)]))
    ELSE Return(s)

\* the factor of the page keys, lines 168 and 170
PageFactor == Scale(1, Zero)

\* the step of the arrow keys, lines 172-178
ArrowStep == Rat(5, 1)

\* handle_special_keypress, lines 165-178
handle_special_keypress(s, key) ==
    Return(CASE key = "PAGE_UP" -> [s EXCEPT !.rho = ScaleDiv(@, PageFactor)]
             [] key = "PAGE_DOWN" -> [s EXCEPT !.rho = ScaleMul(@, PageFactor)]
             [] key = "UP" -> [s EXCEPT !.phi = RatAdd(@, ArrowStep)]
             [] key = "DOWN" -> [s EXCEPT !.phi = RatSub(@, ArrowStep)]
             [] key = "LEFT" -> [s EXCEPT !.theta = RatSub(@, ArrowStep)]
             [] key = "RIGHT" -> [s EXCEPT !.theta = RatAdd(@, ArrowStep)]
             [] OTHER -> s)

\* an integration that pauses with the playback
IntegrateUnlessPaused(s) ==
    IF s.paused THEN s
    ELSE [s EXCEPT !.theta = RatAdd(@, s._d_theta),
                   !.phi = RatAdd(@, s._d_phi),
                   !.rho = ScaleDiv(@, s._d_rho)]

\* lines 249-251: the camera follows the drag velocities
Integrate(s) ==
    [s EXCEPT !.theta = RatAdd(@, s._d_theta),
              !.phi = RatAdd(@, s._d_phi),
              !.rho = ScaleDiv(@, s._d_rho)]

\* 1.0 / self._frame_rate, in clock units; the rate is not zero
Interval(rate) ==
    IF rate > 0 THEN TimeRes \div rate ELSE -(TimeRes \div (-rate))

\* a frame counted as due on every tick
DueAlways(elapsed, rate) == elapsed >= 0

\* a frame counted as due at exactly one interval
DueAtEquality(elapsed, rate) == elapsed >= Interval(rate)

\* line 257: whether a frame is due
Due(elapsed, rate) == elapsed > Interval(rate)

\* lines 259-260: every trail takes its marker's point of the frame
AppendFrame(trails, points) ==
    [i \in 1..Len(trails) |->
        IF i <= Len(Zip(trails, points))
        THEN DequeAppend(trails[i], Slice3(points[i]))
        ELSE trails[i]]

\* an iterator that stops one frame early
HasNextButLast(s, r) == s._frames + 1 < r.frames

\* line 258: self._frames.next() yields a frame while the file has one left
HasNext(s, r) == s._frames < r.frames

\* handle_idle, lines 247-265.  t1 and t2 are the two values time.time()
\* returns (lines 256 and 261), r the reader of file f.  The outcome also
\* tells the clock when the callback returns, whether it has posted a
\* redisplay, and what it did
handle_idle(s, t1, t2, r, f) ==
    LET s1 == Integrate(s)
        elapsed == t1 - s1._last_time
    IN  IF IsZero(s._d_rho)
        THEN [self |-> [s EXCEPT !.theta = RatAdd(@, s._d_theta),
                                 !.phi = RatAdd(@, s._d_phi)],
              exc |-> "ZeroDivisionError",
              now |-> t1, posted |-> FALSE, did |-> "error"]
        ELSE IF s1.paused
        THEN [self |-> s1, exc |-> "", now |-> t1, posted |-> FALSE, did |-> "paused"]
        ELSE IF s1._frame_rate = 0
        THEN [self |-> s1, exc |-> "ZeroDivisionError", now |-> t1, posted |-> FALSE,
              did |-> "error"]
        ELSE IF Due(elapsed, s1._frame_rate)
        THEN IF ~HasNext(s1, r)
             THEN [self |-> s1, exc |-> "StopIteration", now |-> t1, posted |-> FALSE,
                   did |-> "exhausted"]
             ELSE [self |-> [s1 EXCEPT
                       !._frames = @ + 1,
                       !._trails = AppendFrame(@, Frame(f, s1._frames + 1, r).points),
                       !._last_time = t2],
                   exc |-> "", now |-> t2, posted |-> TRUE, did |-> "pull"]
        ELSE [self |-> s1, exc |-> "",
              now |-> t1 + (Interval(s1._frame_rate) - elapsed),
              posted |-> TRUE, did |-> "sleep"]

\* two whole thirds of the width
LeftWidthOfThirds(width) == 2 * IntOf(width, 3)

\* lines 188-189
LeftWidth(width) == IntOf(2 * width, 3)

ThirdHeight(height) == IntOf(height, 3)

\* lines 213, 223, 234: the width of an orthographic viewport
OrthoWidth(w) == FloorDiv(w, 2)

\* render_model, lines 301-305: the visible markers' trails, in marker order
\* (label, colour index, points)
RECURSIVE RenderFrom(_, _)
RenderFrom(s, i) ==
    IF i > Len(s._trails) THEN <<>>
    ELSE (IF s.visible[i] THEN <<[label |-> i - 1, color |-> (i - 1) % 6,
                                   points |-> s._trails[i].items]>>
          ELSE <<>>) \o RenderFrom(s, i + 1)

render_model(s) == RenderFrom(s, 1)

\* lines 301-305, 312: render_model draws a sphere for marker i
Spheres(s, i) == s.visible[i] /\ s._trails[i].items # <<>>

\* handle_draw, lines 180-245: the glViewport calls it makes and the display
\* list it compiles.  1.0 / self.rho fails for rho = 0.0: at the first sphere
\* (line 313; the trails are equally long, so it is the first visible
\* marker's), or else at line 207; float(w) / self._height fails at line 195
handle_draw(s) ==
    LET w == LeftWidth(s._width)
        h == ThirdHeight(s._height)
        first == <<<<0, 0, w, s._height>>>>
    IN  IF IsZero(s.rho) /\ \E i \in 1..Len(s._trails) : Spheres(s, i)
        THEN [viewports |-> <<>>, display_list |-> <<>>, exc |-> "ZeroDivisionError"]
        ELSE IF s._height = 0 \/ IsZero(s.rho)
        THEN [viewports |-> first, display_list |-> render_model(s),
              exc |-> "ZeroDivisionError"]
        ELSE [viewports |-> first \o <<<<w, 0, OrthoWidth(w), h>>,
                                        <<w, h, OrthoWidth(w), h>>,
                                        <<w, 2 * h, OrthoWidth(w), h>>>>,
              display_list |-> render_model(s),
              exc |-> ""]

----------------------------------------------------------------------------
(* The process: __main__ and the GLUT main loop *)

\* the history variable when a Viewer is built: __init__ resets empty lists
NoHistory(r) == [items |-> [i \in 1..r.points |-> <<>>], frames |-> 0, maxlen |-> 1]

\* lines 325-332: the first file's Viewer enters its main loop
InitWith(a) ==
    /\ args = a
    /\ file = 1
    /\ status = "running"
    /\ self = Viewer(a[1])
    /\ now = StartTime
    /\ held = {}
    /\ redisplay = FALSE
    /\ display_list = <<>>
    /\ viewports = <<>>
    /\ before_reset = NoHistory(a[1])
    /\ last = "init"

\* an exception leaves mainloop(); only StopIteration is caught (line 333)
StatusAfter(exc) ==
    IF exc = "" THEN "running"
    ELSE IF exc = "SystemExit" THEN "exited"
    ELSE "crashed"

\* the camera values the exploration follows: the angles near their initial
\* values; rho near 1, on the whole powers of e that are normal floats, and
\* at 0.0
InBounds(s) ==
    /\ RatLe(RatAbs(RatSub(s.theta, Rat(350, 1))), Rat(MaxTurn, 2))
    /\ RatLe(RatAbs(RatSub(s.phi, Rat(300, 1))), Rat(MaxTurn, 2))
    /\ \/ IsZero(s.rho)
       \/ /\ Abs(s.rho.pow) <= MaxZoom
          /\ \/ RatLe(RatAbs(s.rho.log), Rat(MaxZoom, 13))
             \/ s.rho.log[2] = 1 /\ IsNormal(s.rho)

\* time passes between callbacks
Clock ==
    /\ status = "running"
    /\ now - self._last_time < MaxElapsed
    /\ now' = now + 1
    /\ last' = "clock"
    /\ UNCHANGED <<args, file, status, self, held, redisplay, display_list,
                   viewports, before_reset>>

\* a loop that stops at the first exhausted file
NextFileBreak(s) ==
    /\ status' = "finished"
    /\ self' = s
    /\ UNCHANGED <<file, held, redisplay, display_list, viewports, before_reset>>

\* lines 330-334: StopIteration ends the session of the current file; the
\* loop goes on to the next file, and the process ends after the last
NextFile(s) ==
    IF file < Len(args)
    THEN /\ file' = file + 1
         /\ self' = Viewer(args[file + 1])
         /\ held' = {}
         /\ redisplay' = FALSE
         /\ display_list' = <<>>
         /\ viewports' = <<>>
         /\ before_reset' = NoHistory(args[file + 1])
         /\ UNCHANGED status
    ELSE /\ status' = "finished"
         /\ self' = s
         /\ UNCHANGED <<file, held, redisplay, display_list, viewports, before_reset>>

\* the idle callback
Idle ==
    /\ status = "running"
    /\ \E t2 \in {now, now + 1} :
         LET res == handle_idle(self, now, t2, args[file], file)
         IN  /\ InBounds(res.self)
             /\ last' = "idle_" \o res.did
             /\ now' = res.now
             /\ IF res.exc = "StopIteration"
                THEN NextFile(res.self)
                ELSE /\ self' = res.self
                     /\ status' = StatusAfter(res.exc)
                     /\ redisplay' = (redisplay \/ res.posted)
                     /\ UNCHANGED <<file, held, display_list, viewports,
                                    before_reset>>
    /\ UNCHANGED args

\* the keyboard callback for one key
Keypress(char) ==
    /\ status = "running"
    /\ LET res == handle_keypress(self, char)
       IN  /\ res.self.maxlen <= MaxLen
           /\ self' = res.self
           /\ status' = StatusAfter(res.exc)
           /\ before_reset' = IF char \in {"+", "=", "_", "-"} THEN History(self)
                              ELSE before_reset
    /\ last' = "key_" \o char
    /\ UNCHANGED <<args, file, now, held, redisplay, display_list, viewports>>

\* the special key callback
SpecialKeypress(key) ==
    /\ status = "running"
    /\ LET res == handle_special_keypress(self, key)
       IN  /\ InBounds(res.self)
           /\ self' = res.self
           /\ status' = StatusAfter(res.exc)
    /\ last' = "special_" \o key
    /\ UNCHANGED <<args, file, now, held, redisplay, display_list, viewports,
                   before_reset>>

\* the reshape callback
Reshape(w, h) ==
    /\ status = "running"
    /\ LET res == handle_reshape(self, w, h)
       IN  /\ self' = res.self
           /\ status' = StatusAfter(res.exc)
    /\ last' = "reshape"
    /\ UNCHANGED <<args, file, now, held, redisplay, display_list, viewports,
                   before_reset>>

\* the mouse callback: a button that is up goes down, one that is down goes up
MouseButton(button, state, x, y, modifiers) ==
    /\ status = "running"
    /\ IF state = GLUT_DOWN THEN button \notin held ELSE button \in held
    /\ held' = IF state = GLUT_DOWN THEN held \cup {button} ELSE held \ {button}
    /\ LET res == handle_mouse_button(self, button, state, x, y, modifiers)
       IN  /\ self' = res.self
           /\ status' = StatusAfter(res.exc)
    /\ last' = IF state = GLUT_DOWN THEN "mouse_down" ELSE "mouse_up"
    /\ UNCHANGED <<args, file, now, redisplay, display_list, viewports, before_reset>>

\* the motion callback: GLUT calls it while a button is down
Motion(x, y) ==
    /\ status = "running"
    /\ held # {}
    /\ LET res == handle_mouse_movement(self, x, y)
       IN  /\ self' = res.self
           /\ status' = StatusAfter(res.exc)
    /\ last' = "motion"
    /\ UNCHANGED <<args, file, now, held, redisplay, display_list, viewports,
                   before_reset>>

\* the display callback: after a posted redisplay, or when the window is damaged
Draw ==
    /\ status = "running"
    /\ LET res == handle_draw(self)
       IN  /\ viewports' = res.viewports
           /\ display_list' = res.display_list
           /\ status' = StatusAfter(res.exc)
    /\ redisplay' = FALSE
    /\ last' = "draw"
    /\ UNCHANGED <<args, file, self, now, held, before_reset>>

----------------------------------------------------------------------------
(* Specifications: the callbacks under the events of one kind of session *)

\* Playback: two files are played; the user pauses and changes the capacity
PlaybackArgs ==
    <<[frames |-> MaxFrames, points |-> 2, rate |-> 2],
      [frames |-> 1, points |-> 1, rate |-> 1]>>

PlaybackKeys == {"p", "+", "=", "-", "_"}

InitPlayback == InitWith(PlaybackArgs)

NextPlayback ==
    \/ Clock
    \/ Idle
    \/ \E char \in PlaybackKeys : Keypress(char)

SpecPlayback == InitPlayback /\ [][NextPlayback]_vars

\* Camera: one short file is played while the user drags the mouse over a
\* window of the initial size or of an odd size, and pauses
CameraArgs == <<[frames |-> 1, points |-> 1, rate |-> 2]>>

CameraKeys == {"p"}

CameraSizes == {<<800, 600>>, <<801, 601>>}

CameraCursors == {<<400, 240>>, <<400, 300>>}

CameraButtons == {GLUT_LEFT_BUTTON, GLUT_RIGHT_BUTTON}

CameraModifiers == {0}

InitCamera == InitWith(CameraArgs)

NextCamera ==
    \/ Clock
    \/ Idle
    \/ \E char \in CameraKeys : Keypress(char)
    \/ \E size \in CameraSizes : Reshape(size[1], size[2])
    \/ \E button \in CameraButtons, state \in {GLUT_DOWN, GLUT_UP},
          at \in CameraCursors, modifiers \in CameraModifiers :
           MouseButton(button, state, at[1], at[2], modifiers)
    \/ \E at \in CameraCursors : Motion(at[1], at[2])

SpecCamera == InitCamera /\ [][NextCamera]_vars

\* Layout: the window is reshaped and redrawn
LayoutArgs == <<[frames |-> 1, points |-> 2, rate |-> 2]>>

LayoutWidths == {0, 1, 7, 800, 900}

LayoutHeights == {0, 1, 5, 600}

InitLayout == InitWith(LayoutArgs)

NextLayout ==
    \/ \E w \in LayoutWidths, h \in LayoutHeights : Reshape(w, h)
    \/ Draw

SpecLayout == InitLayout /\ [][NextLayout]_vars

\* Visibility: a file of three markers is played and redrawn while the user
\* toggles markers, one key naming a marker the file does not have, and
\* raises the capacity
VisibilityArgs == <<[frames |-> 2, points |-> 3, rate |-> 2]>>

VisibilityKeys == {"0", "2", "7", "+"}

InitVisibility == InitWith(VisibilityArgs)

NextVisibility ==
    \/ Clock
    \/ Idle
    \/ \E char \in VisibilityKeys : Keypress(char)
    \/ Draw

SpecVisibility == InitVisibility /\ [][NextVisibility]_vars

\* Remap: each of the three buttons is pressed, dragged and released under
\* every combination of Ctrl and Alt, on an even and an odd surface
RemapArgs == <<[frames |-> 1, points |-> 1, rate |-> 2]>>

RemapSizes == {<<800, 600>>, <<801, 601>>}

RemapCursors == {<<400, 240>>, <<440, 360>>}

RemapButtons == {GLUT_LEFT_BUTTON, GLUT_MIDDLE_BUTTON, GLUT_RIGHT_BUTTON}

RemapModifiers ==
    {0, GLUT_ACTIVE_CTRL, GLUT_ACTIVE_ALT, GLUT_ACTIVE_CTRL + GLUT_ACTIVE_ALT}

InitRemap == InitWith(RemapArgs)

NextRemap ==
    \/ \E size \in RemapSizes : Reshape(size[1], size[2])
    \/ \E button \in RemapButtons, state \in {GLUT_DOWN, GLUT_UP},
          at \in RemapCursors, modifiers \in RemapModifiers :
          MouseButton(button, state, at[1], at[2], modifiers)
    \/ \E at \in RemapCursors : Motion(at[1], at[2])

SpecRemap == InitRemap /\ [][NextRemap]_vars

\* Zoom: on a surface one pixel high the right button is dragged far below
\* the window and held over ticks and draws, with the page keys
ZoomArgs == <<[frames |-> 1, points |-> 1, rate |-> 2]>>

ZoomSizes == {<<800, 1>>}

ZoomCursors == {<<400, 0>>, <<400, 520>>}

ZoomKeys == {"PAGE_UP", "PAGE_DOWN"}

InitZoom == InitWith(ZoomArgs)

NextZoom ==
    \/ Clock
    \/ Idle
    \/ \E key \in ZoomKeys : SpecialKeypress(key)
    \/ \E size \in ZoomSizes : Reshape(size[1], size[2])
    \/ \E state \in {GLUT_DOWN, GLUT_UP}, at \in ZoomCursors :
          MouseButton(GLUT_RIGHT_BUTTON, state, at[1], at[2], 0)
    \/ \E at \in ZoomCursors : Motion(at[1], at[2])
    \/ Draw

SpecZoom == InitZoom /\ [][NextZoom]_vars

\* Frame rates: the first file's header gives any frame rate, which
\* Viewer.__init__ takes as it is (line 57)
RateArgs == {<<[frames |-> MaxFrames, points |-> 1, rate |-> rate]>> : rate \in {-1, 0, 1, 2}}

RateKeys == {"p"}

InitRate == \E a \in RateArgs : InitWith(a)

NextRate ==
    \/ Clock
    \/ Idle
    \/ \E char \in RateKeys : Keypress(char)

SpecRate == InitRate /\ [][NextRate]_vars

\* every callback, under all the events above
Init == InitPlayback

Next ==
    \/ NextPlayback
    \/ NextCamera
    \/ NextLayout
    \/ NextVisibility
    \/ NextRate
    \/ NextRemap
    \/ NextZoom
    \/ \E key \in {"PAGE_UP", "PAGE_DOWN", "UP", "DOWN", "LEFT", "RIGHT"} :
           SpecialKeypress(key)
    \/ \E char \in Digits \cup {"q"} : Keypress(char)

Spec == Init /\ [][Next]_vars

----------------------------------------------------------------------------
(* Properties of playback *)

IdleOutcomes == {"idle_paused", "idle_pull", "idle_sleep", "idle_exhausted"}

CapacityKeys == {"key_+", "key_=", "key_-", "key__"}

\* the last k items of a sequence
LastK(q, k) == SubSeq(q, Len(q) - k + 1, Len(q))

\* the points of marker i in frames a+1 .. b of the current file, as appended
Appended(i, a, b) == [j \in 1..(b - a) |-> SubSeq(Point(file, a + j, i), 1, 3)]

\* C1: in every state reached by ticks and capacity keys, maxlen is at least
\* 1 and every marker's trail holds at most maxlen points.
C1_CapacityBound ==
    /\ self.maxlen >= 1
    /\ \A i \in 1..Len(self._trails) : Len(self._trails[i].items) <= self.maxlen

\* a trail is full at a capacity above 1 and has evicted a point
C1_Witness ==
    /\ last = "idle_pull"
    /\ self.maxlen = 2
    /\ self._frames = 3
    /\ Len(self._trails[1].items) = 2

\* C2: after n appends at a fixed capacity c (none of the capacity keys in
\* between), the last min(n, c) points of every trail are the last min(n, c)
\* points appended, in insertion order; a trail that was empty when the
\* capacity was fixed holds exactly these.
C2_Fifo ==
    LET n == self._frames - before_reset.frames
        k == Min(n, self.maxlen)
    IN  \A i \in 1..Len(self._trails) :
            /\ Len(self._trails[i].items) >= k
            /\ LastK(self._trails[i].items, k)
                   = Appended(i, self._frames - k, self._frames)
            /\ before_reset.items[i] = <<>> => Len(self._trails[i].items) = k

\* three appends to an empty trail of capacity 2: the oldest point is gone
C2_Witness ==
    /\ last = "idle_pull"
    /\ before_reset.items[1] = <<>>
    /\ self.maxlen = 2
    /\ self._frames - before_reset.frames = 3

\* C3: a capacity key rebuilds every trail with the new capacity k: all the
\* points when k >= the size, else the most recent k points, in their order.
C3_Rebuild ==
    last \in CapacityKeys =>
        \A i \in 1..Len(self._trails) :
            LET old == before_reset.items[i]
                k == self.maxlen
            IN  /\ self._trails[i].maxlen = k
                /\ self._trails[i].items =
                       IF k >= Len(old) THEN old
                       ELSE [j \in 1..k |-> old[Len(old) - k + j]]

\* a trail of three points is cut to its two most recent
C3_Witness ==
    /\ last = "key_-"
    /\ self.maxlen = 2
    /\ Len(before_reset.items[1]) = 3

\* what a tick that pulls a frame does: one frame more is consumed, every
\* trail takes its marker's point of that frame as its newest, and
\* _last_time is the clock as the callback returns
PullsOne ==
    /\ last' = "idle_pull"
    /\ file' = file
    /\ self'._frames = self._frames + 1
    /\ \A i \in 1..Len(self._trails) :
           /\ self'._trails[i].items # <<>>
           /\ self'._trails[i].items[Len(self'._trails[i].items)]
                  = SubSeq(Point(file, self._frames + 1, i), 1, 3)
    /\ now' >= now
    /\ self'._last_time = now'

\* what a tick that only sleeps does
OnlySleeps(duration) ==
    /\ last' = "idle_sleep"
    /\ file' = file
    /\ self'._frames = self._frames
    /\ self'._trails = self._trails
    /\ self'._last_time = self._last_time
    /\ now' = now + duration

\* C4 as stated: on a non-paused tick with a frame left, elapsed >=
\* 1/frame_rate (equality included) pulls exactly one frame, appends it and
\* sets _last_time; a smaller elapsed only sleeps for 1/frame_rate - elapsed.
C4_Original ==
    [][(last' \in IdleOutcomes /\ ~self.paused /\ HasNext(self, args[file])) =>
          LET elapsed == now - self._last_time
              interval == TimeRes \div self._frame_rate
          IN  IF elapsed >= interval THEN PullsOne
              ELSE OnlySleeps(interval - elapsed)]_vars

\* C4, amended: the frame is pulled when elapsed is strictly greater than
\* 1/frame_rate; at equality and below, the tick only sleeps for
\* 1/frame_rate - elapsed (for no time at equality).
C4_Pacing ==
    [][(last' \in IdleOutcomes /\ ~self.paused /\ HasNext(self, args[file])) =>
          LET elapsed == now - self._last_time
              interval == TimeRes \div self._frame_rate
          IN  IF elapsed > interval THEN PullsOne
              ELSE OnlySleeps(interval - elapsed)]_vars

\* a tick at exactly one frame interval after the last frame has slept, for
\* no time, and pulled nothing
C4_Witness ==
    /\ last = "idle_sleep"
    /\ self._frames = 2
    /\ now - self._last_time = TimeRes \div self._frame_rate

\* C6: a file of N frames for M markers gives exactly N appends on each of
\* the M trails, frame after frame in source order, and the pull after the
\* N-th raises StopIteration.
C6_AllFramesOnce ==
    [][/\ Len(self._trails) = args[file].points
       /\ (file' = file /\ self'._frames # self._frames) =>
              /\ PullsOne
              /\ self'._frames <= args[file].frames
       /\ last' = "idle_exhausted" => self._frames = args[file].frames
       /\ (last' \in IdleOutcomes /\ ~self.paused
             /\ now - self._last_time > TimeRes \div self._frame_rate
             /\ self._frames = args[file].frames) => last' = "idle_exhausted"]_vars

\* the session of 3 frames for 2 markers has ended by exhaustion
C6_Witness ==
    /\ last = "idle_exhausted"
    /\ file = 2
    /\ args[1].frames = 3
    /\ args[1].points = 2

\* C7: exhaustion of the current file ends that file's session only: the
\* next file in argument order gets a fresh session, the process is not
\* aborted, and within a file the frame position never goes back.
C7_NextFile ==
    [][/\ last' = "idle_exhausted" =>
              IF file < Len(args)
              THEN /\ file' = file + 1
                   /\ status' = "running"
                   /\ self'._frames = 0
                   /\ self'._frame_rate = args[file + 1].rate
                   /\ \A i \in 1..Len(self'._trails) : self'._trails[i].items = <<>>
              ELSE file' = file /\ status' = "finished"
       /\ file' # file => last' = "idle_exhausted"
       /\ file' = file => self'._frames >= self._frames]_vars

\* the second file is being played after the first ran out
C7_Witness ==
    /\ status = "running"
    /\ file = 2
    /\ last = "idle_pull"
    /\ self._frames = 1

----------------------------------------------------------------------------
(* Properties of the camera *)

\* C5: a tick while paused leaves the frame position, every trail and
\* _last_time as they are and does not sleep, and still integrates the
\* camera: theta += d_theta, phi += d_phi, rho /= d_rho.
C5_PausedTick ==
    [][(last' \in IdleOutcomes /\ self.paused) =>
          /\ last' = "idle_paused"
          /\ file' = file
          /\ status' = status
          /\ self'._frames = self._frames
          /\ self'._trails = self._trails
          /\ self'._last_time = self._last_time
          /\ now' = now
          /\ self'.theta = RatAdd(self.theta, self._d_theta)
          /\ self'.phi = RatAdd(self.phi, self._d_phi)
          /\ self'.rho.pow = self.rho.pow - self._d_rho.pow
          /\ self'.rho.log = RatSub(self.rho.log, self._d_rho.log)]_vars

\* no frame was ever pulled, so every tick so far was a paused one, and two
\* of them have moved the camera: one turned phi, a later one zoomed
C5_Witness ==
    /\ last = "idle_paused"
    /\ self._frames = 0
    /\ self.phi = <<599, 2>>
    /\ self.rho.log = <<1, 13>>

\* C8: a button-up leaves d_theta = 0, d_phi = 0, d_rho = 1 whatever came
\* before it, and the ticks that follow, while no button is recorded, leave
\* theta, phi and rho unchanged.
C8_ReleaseStopsDrift ==
    [][/\ last' = "mouse_up" =>
              /\ self'._d_theta = <<0, 1>>
              /\ self'._d_phi = <<0, 1>>
              /\ self'._d_rho = [pow |-> 0, log |-> <<0, 1>>]
       /\ (last' \in IdleOutcomes /\ file' = file /\ self._mouse_button = <<>>) =>
              /\ self'.theta = self.theta
              /\ self'.phi = self.phi
              /\ self'.rho = self.rho]_vars

\* a drag has turned the camera, the button is up, and a tick has run since
C8_Witness ==
    /\ last \in IdleOutcomes
    /\ held = {}
    /\ self._mouse_button = <<>>
    /\ self.phi = <<599, 2>>

\* a left drag without modifiers to (x, y): the motion callback, or the
\* button going down there
LeftDragTo(x, y) ==
    \/ Motion(x, y) /\ self._mouse_button = <<GLUT_LEFT_BUTTON, 0>>
    \/ MouseButton(GLUT_LEFT_BUTTON, GLUT_DOWN, x, y, 0)

\* C9 as stated: on a surface W x H, W, H > 0, a left drag without modifiers
\* to (x, y) sets d_phi = 5*(y - H/2)/H and d_theta = 5*(x - W/2)/W with the
\* exact centre (W/2, H/2), and a tick adds d_phi to phi.
C9_Original ==
    [][/\ \A at \in CameraCursors :
              (LeftDragTo(at[1], at[2]) /\ self._width > 0 /\ self._height > 0) =>
                  /\ self'._d_phi = Rat(5 * (2 * at[2] - self._height), 2 * self._height)
                  /\ self'._d_theta = Rat(5 * (2 * at[1] - self._width), 2 * self._width)
       /\ (last' \in IdleOutcomes /\ file' = file) =>
              self'.phi = RatAdd(self.phi, self._d_phi)]_vars

\* C9, amended: the centre is (floor(W/2), floor(H/2)): d_phi =
\* 5*(y - floor(H/2))/H and d_theta = 5*(x - floor(W/2))/W, which is the
\* stated value when W and H are even; a tick adds d_phi to phi.
C9_LeftDrag ==
    [][/\ \A at \in CameraCursors :
              (LeftDragTo(at[1], at[2]) /\ self._width > 0 /\ self._height > 0) =>
                  /\ self'._d_phi =
                         Rat(5 * (at[2] - (self._height \div 2)), self._height)
                  /\ self'._d_theta =
                         Rat(5 * (at[1] - (self._width \div 2)), self._width)
       /\ (last' \in IdleOutcomes /\ file' = file) =>
              self'.phi = RatAdd(self.phi, self._d_phi)]_vars

\* on the 801 x 601 surface a left drag to (400, 240) has turned phi by one
\* tick of -300/601
C9_Witness ==
    /\ last \in IdleOutcomes
    /\ self._width = 801
    /\ self._height = 601
    /\ self._mouse_button = <<GLUT_LEFT_BUTTON, 0>>
    /\ self._d_phi = <<-300, 601>>
    /\ self._d_theta = <<0, 1>>
    /\ self.phi = RatAdd(<<300, 1>>, <<-300, 601>>)

----------------------------------------------------------------------------
(* Properties of the layout *)

\* the four viewports of a surface W x H whose orthographic views are ow wide
Layout(W, H, ow) ==
    LET lw == (2 * W) \div 3
        th == H \div 3
    IN  <<<<0, 0, lw, H>>, <<lw, 0, ow, th>>, <<lw, th, ow, th>>,
          <<lw, 2 * th, ow, th>>>>

\* C10 as stated: the perspective viewport is (0, 0, leftWidth, H) with
\* leftWidth = floor(2W/3), and the three orthographic viewports are
\* W - leftWidth wide and floor(H/3) high, at (leftWidth, 0),
\* (leftWidth, floor(H/3)) and (leftWidth, 2*floor(H/3)).
C10_Original ==
    (last = "draw" /\ self._height > 0) =>
        viewports = Layout(self._width, self._height,
                           self._width - (2 * self._width) \div 3)

\* C10, amended: for H > 0 the orthographic viewports are floor(leftWidth/2)
\* wide, which is W - leftWidth when W is a multiple of 3 (as for 900 x 600).
C10_Viewports ==
    (last = "draw" /\ self._height > 0) =>
        viewports = Layout(self._width, self._height,
                           ((2 * self._width) \div 3) \div 2)

\* the window of the initial size 800 x 600 has been drawn: the orthographic
\* views are 266 wide, one less than 800 - 533
C10_Witness ==
    /\ last = "draw"
    /\ self._width = 800
    /\ self._height = 600
    /\ viewports = <<<<0, 0, 533, 600>>, <<533, 0, 266, 200>>,
                     <<533, 200, 266, 200>>, <<533, 400, 266, 200>>>>

----------------------------------------------------------------------------
(* Properties of visibility *)

\* the digit keys of the visibility sessions, as last records them
DigitKeys == {"key_0", "key_2", "key_7"}

\* the marker index a recorded digit key names
KeyIndex(k) == CASE k = "key_0" -> 0 [] k = "key_2" -> 2 [] k = "key_7" -> 7

\* C11 as stated: a digit key within the marker count flips exactly that
\* marker's flag; a digit key outside the marker count is ignored: no error
\* is raised, and the visibility mask, the trails and the camera are
\* unchanged.
C11_Original ==
    [][last' \in DigitKeys =>
          LET d == KeyIndex(last')
          IN  /\ status' = "running"
              /\ IF d < Len(self.visible)
                 THEN self'.visible =
                          [i \in 1..Len(self.visible) |->
                              IF i = d + 1 THEN ~self.visible[i] ELSE self.visible[i]]
                 ELSE self' = self]_vars

\* the marker indices shown, in order
RECURSIVE VisibleFrom(_)
VisibleFrom(i) ==
    IF i > Len(self.visible) THEN <<>>
    ELSE (IF self.visible[i] THEN <<i>> ELSE <<>>) \o VisibleFrom(i + 1)

\* C13: whatever the toggles, every marker's trail is the most recent points
\* of its own marker, as long as every other trail and as the appends and
\* the capacity alone make it; what is rendered is the trails of the visible
\* markers, and only those.
C13_HiddenAccumulate ==
    /\ \A i \in 1..Len(self._trails) :
           LET L == Len(self._trails[i].items)
               n == self._frames - before_reset.frames
           IN  /\ L = Len(self._trails[1].items)
               /\ L >= Min(n, self.maxlen)
               /\ before_reset.items[i] = <<>> => L = Min(n, self.maxlen)
               /\ self._trails[i].items = Appended(i, self._frames - L, self._frames)
    /\ (last = "draw" /\ status = "running") =>
           display_list =
               [j \in 1..Len(VisibleFrom(1)) |->
                   [label |-> VisibleFrom(1)[j] - 1,
                    color |-> (VisibleFrom(1)[j] - 1) % 6,
                    points |-> self._trails[VisibleFrom(1)[j]].items]]

\* marker 0 was hidden when the second frame came and its trail holds that
\* frame's point
C13_Witness ==
    /\ last = "idle_pull"
    /\ ~self.visible[1]
    /\ self._frames = 2
    /\ self._trails[1].items = <<SubSeq(Point(1, 2, 1), 1, 3)>>

----------------------------------------------------------------------------
(* Properties of the frame rate *)

\* C12 as stated: a session exists only with a positive frame rate (the
\* construction fails otherwise), so that no tick ever runs with a frame
\* rate that is zero or negative.
C12_Original ==
    [][last' \in IdleOutcomes \cup {"idle_error"} => self._frame_rate > 0]_vars

----------------------------------------------------------------------------
(* Properties of the capacity keys *)

HalvingKeys == {"key_-", "key__"}

\* C14: when the last capacity key was a doubling, from capacity c, then
\* whatever ticks have come since, a halving key restores the capacity c
\* exactly.
C14_DoubleThenHalve ==
    [][(last' \in HalvingKeys /\ self.maxlen = Doubled(before_reset.maxlen)) =>
           self'.maxlen = before_reset.maxlen]_vars

\* capacity 4, which only a doubling of 2 reaches, has been halved to 2
\* after a tick had made a trail of three points
C14_Witness ==
    /\ last \in HalvingKeys
    /\ before_reset.maxlen = 4
    /\ Len(before_reset.items[1]) = 3
    /\ self.maxlen = 2

----------------------------------------------------------------------------
(* Properties of the intake rate *)

\* C16: a tick pulls at most one frame, and a frame is pulled only when at
\* least one frame interval 1/frame_rate has passed on the clock since the
\* previous pull of the session, however long the pause or the stall before.
C16_IntakeRate ==
    [][(last' \in IdleOutcomes /\ file' = file) =>
           /\ self'._frames \in {self._frames, self._frames + 1}
           /\ (last' = "idle_pull") = (self'._frames = self._frames + 1)
           /\ (last' = "idle_pull" /\ self._frames >= 1) =>
                  now - self._last_time >= Interval(self._frame_rate)]_vars

\* the second frame was pulled after a stall of three frame intervals, and
\* it is the only frame pulled
C16_Witness ==
    /\ last = "idle_pull"
    /\ file = 1
    /\ self._frames = 2
    /\ self._last_time = StartTime + MaxElapsed + 2

----------------------------------------------------------------------------
(* Properties of the modifier remap *)

\* a press of the button under the modifiers at (x, y), or a motion to
\* (x, y) of the drag that press began
DragTo(button, modifiers, x, y) ==
    \/ Motion(x, y) /\ self._mouse_button = <<button, modifiers>>
    \/ MouseButton(button, GLUT_DOWN, x, y, modifiers)

Ctrl(modifiers) == BitAnd(modifiers, GLUT_ACTIVE_CTRL) # 0

Alt(modifiers) == BitAnd(modifiers, GLUT_ACTIVE_ALT) # 0

AnglesUnchanged == self'._d_theta = self._d_theta /\ self'._d_phi = self._d_phi

\* C17 as stated: a left drag with Ctrl held acts as a middle drag and
\* changes none of d_theta, d_phi, d_rho; a left drag with Alt held acts as
\* a right drag: d_rho = exp(((y - H/2)/H)/1.3), d_theta and d_phi unchanged;
\* the physical middle and right buttons act the same under every modifier.
C17_Original ==
    [][\A at \in RemapCursors, m \in RemapModifiers :
          /\ (DragTo(GLUT_LEFT_BUTTON, m, at[1], at[2]) /\ Ctrl(m)) =>
                 AnglesUnchanged /\ self'._d_rho = self._d_rho
          /\ (DragTo(GLUT_LEFT_BUTTON, m, at[1], at[2]) /\ Alt(m) /\ ~Ctrl(m)) =>
                 /\ AnglesUnchanged
                 /\ self'._d_rho =
                        MathExp(Rat(10 * (2 * at[2] - self._height), 26 * self._height))
          /\ DragTo(GLUT_MIDDLE_BUTTON, m, at[1], at[2]) =>
                 AnglesUnchanged /\ self'._d_rho = self._d_rho
          /\ DragTo(GLUT_RIGHT_BUTTON, m, at[1], at[2]) =>
                 /\ AnglesUnchanged
                 /\ self'._d_rho =
                        MathExp(Rat(10 * (2 * at[2] - self._height), 26 * self._height))]_vars

\* C17, amended: a left drag with Alt held, with or without Ctrl, acts as a
\* right drag: d_rho = exp(((y - floor(H/2))/H)/1.3), d_theta and d_phi
\* unchanged; a left drag with Ctrl held and Alt not held acts as a middle
\* drag and changes none of the three; the physical middle and right
\* buttons act as themselves under every modifier.
C17_Remap ==
    [][\A at \in RemapCursors, m \in RemapModifiers :
          /\ (DragTo(GLUT_LEFT_BUTTON, m, at[1], at[2]) /\ Alt(m)) =>
                 /\ AnglesUnchanged
                 /\ self'._d_rho =
                        MathExp(Rat(10 * (at[2] - (self._height \div 2)), 13 * self._height))
          /\ (DragTo(GLUT_LEFT_BUTTON, m, at[1], at[2]) /\ Ctrl(m) /\ ~Alt(m)) =>
                 AnglesUnchanged /\ self'._d_rho = self._d_rho
          /\ DragTo(GLUT_MIDDLE_BUTTON, m, at[1], at[2]) =>
                 AnglesUnchanged /\ self'._d_rho = self._d_rho
          /\ DragTo(GLUT_RIGHT_BUTTON, m, at[1], at[2]) =>
                 /\ AnglesUnchanged
                 /\ self'._d_rho =
                        MathExp(Rat(10 * (at[2] - (self._height \div 2)), 13 * self._height))]_vars

\* a left press with Ctrl and Alt both held has set the zoom velocity
C17_Witness ==
    /\ last = "mouse_down"
    /\ self._mouse_button = <<GLUT_LEFT_BUTTON, GLUT_ACTIVE_CTRL + GLUT_ACTIVE_ALT>>
    /\ self._d_rho = MathExp(Rat(-1, 13))
    /\ self._d_theta = Zero

----------------------------------------------------------------------------
(* Properties of the redraw request *)

\* C18 as stated: every tick, paused or not, ends by requesting a redraw of
\* the state it has just computed.
C18_Original ==
    [][(last' \in IdleOutcomes /\ last' # "idle_exhausted") => redisplay']_vars

----------------------------------------------------------------------------
(* Properties of the viewports *)

\* the viewport (x, y, width, height) lies on the surface
Inside(v, W, H) ==
    /\ v[1] >= 0 /\ v[2] >= 0 /\ v[3] >= 0 /\ v[4] >= 0
    /\ v[1] + v[3] <= W
    /\ v[2] + v[4] <= H

\* two viewports share no pixel
Apart(a, b) ==
    \/ a[1] + a[3] <= b[1] \/ b[1] + b[3] <= a[1]
    \/ a[2] + a[4] <= b[2] \/ b[2] + b[4] <= a[2]

\* C19 as stated: for every surface W >= 0, H >= 0 set by a reshape,
\* handle_draw computes four viewports, which are pairwise non-overlapping
\* and lie inside the W x H surface.
C19_Original ==
    last = "draw" =>
        /\ status = "running"
        /\ Len(viewports) = 4
        /\ \A i \in 1..Len(viewports) : Inside(viewports[i], self._width, self._height)
        /\ \A i, j \in 1..Len(viewports) : i < j => Apart(viewports[i], viewports[j])

----------------------------------------------------------------------------
(* Properties of several buttons *)

\* C20 as stated: when every motion comes while a button is physically
\* held, _mouse_button is not None when handle_mouse_movement runs, and the
\* handler does not fail.
C20_Original ==
    [][last' = "motion" => (self._mouse_button # None /\ status' = "running")]_vars

----------------------------------------------------------------------------
(* Properties of the zoom *)

\* C15 as stated: rho is strictly positive in every reachable state, under
\* any ticks with any right-drag velocity and any page keys, so that the
\* divisions by rho of a draw are always defined.
C15_Original ==
    /\ ~IsZero(self.rho)
    /\ last = "draw" => status = "running"

====
